---- MODULE Spec2Model ----
\* A model of redisorm's repository (core.py, class Persistent) over a
\* key-value hash store: identifier assignment, save, load, soft delete,
\* primary-key ordered iteration and the lookup helpers.
EXTENDS Integers, Sequences, FiniteSets, TLC

\* ------------------------------------------------------------------ bounds

\* The highest identifier the model lets update_id issue.
MaxId == 1

\* The number of save calls the concurrent specification lets start.
MaxCalls == 3

\* ------------------------------------------------------- python values

\* Python values are tagged: None, an int, or a str (a sequence of
\* one-character strings, so that str order and str<->int conversion are
\* computed, not assumed).
PyNone == [t |-> "none"]
PyInt(n) == [t |-> "int", v |-> n]
PyStr(s) == [t |-> "str", v |-> s]

\* bool(x) as `obj.id or ...` and `if r.hget(...)` evaluate it.
Truthy(x) ==
    CASE x.t = "none" -> FALSE
      [] x.t = "int" -> x.v # 0
      [] x.t = "str" -> x.v # <<>>

Digits == <<"0", "1", "2", "3", "4", "5", "6", "7", "8", "9">>

\* The code point order of the characters the model uses.
CharOrd(c) ==
    CASE c = "0" -> 48 [] c = "1" -> 49 [] c = "2" -> 50 [] c = "3" -> 51
      [] c = "4" -> 52 [] c = "5" -> 53 [] c = "6" -> 54 [] c = "7" -> 55
      [] c = "8" -> 56 [] c = "9" -> 57 [] c = "a" -> 97 [] c = "b" -> 98
      [] c = "d" -> 100

RECURSIVE IntToStr(_)
\* str(n) of a non-negative int: its decimal digits.
IntToStr(n) ==
    IF n < 10 THEN <<Digits[n + 1]>>
    ELSE IntToStr(n \div 10) \o <<Digits[(n % 10) + 1]>>

DigitVal(c) == CHOOSE d \in 0..9 : Digits[d + 1] = c

RECURSIVE StrToInt(_)
\* int(s) of a string of decimal digits.
StrToInt(s) ==
    IF Len(s) = 1 THEN DigitVal(s[1])
    ELSE 10 * StrToInt(SubSeq(s, 1, Len(s) - 1)) + DigitVal(s[Len(s)])

RECURSIVE StrLess(_, _)
\* a < b on python str: lexicographic by code point.
StrLess(a, b) ==
    IF b = <<>> THEN FALSE
    ELSE IF a = <<>> THEN TRUE
    ELSE IF a[1] # b[1] THEN CharOrd(a[1]) < CharOrd(b[1])
    ELSE StrLess(Tail(a), Tail(b))

\* str(x) as save and load apply it to an id.
Str(x) == IF x.t = "int" THEN PyStr(IntToStr(x.v)) ELSE x

\* ------------------------------------------------------- type adapter

\* types.Integer(raw): the adapter built from an int or from a stored string.
IntegerNew(x) == IF x.t = "str" THEN PyInt(StrToInt(x.v)) ELSE x

\* types.Integer.freeze(): the stored string of the wrapped value, str(None)
\* for an adapter built from None.
IntegerFreeze(x) == IF x = PyNone THEN <<"N", "o", "n", "e">> ELSE IntToStr(x.v)

\* ----------------------------------------------------------- the store

VARIABLES
    hasPK,        \* schema: whether column k is declared primary_key
    counter,      \* the string at prefix:Type:__latest__, or PyNone
    hashes,       \* key segment (id string) -> hash (field -> string)
    sorted,       \* the list at prefix:Type:__sorted__
    issued,       \* history: the ids update_id has issued, in order
    ret,          \* the last operation: its name, arguments and outcome (for
                  \* save also whether it repeats the save before it)
    procs,        \* concurrent callers: where each is in save, and its locals
    calls         \* history: the number of concurrent save calls started

vars == <<hasPK, counter, hashes, sorted, issued, ret, procs, calls>>

DELETED == "__deleted__"

\* HGET on the hash at `key`: its value, or None when the field is absent.
HGet(hs, key, f) ==
    IF key \in DOMAIN hs /\ f \in DOMAIN hs[key] THEN PyStr(hs[key][f]) ELSE PyNone

\* load, line 125: the hash at `key` carries a truthy tombstone field.
Tombstoned(hs, key) == Truthy(HGet(hs, key, DELETED))

\* A faulty HSET: the hash is replaced by one holding only the field f.
HSet_Replace(hs, key, f, v) ==
    [x \in DOMAIN hs \cup {key} |-> IF x = key THEN [g \in {f} |-> v] ELSE hs[x]]

\* HSET key f v: creates the hash when it does not exist.
HSet(hs, key, f, v) ==
    [x \in DOMAIN hs \cup {key} |->
        IF x = key
        THEN [g \in (IF key \in DOMAIN hs THEN DOMAIN hs[key] ELSE {}) \cup {f} |->
                 IF g = f THEN v ELSE hs[key][g]]
        ELSE hs[x]]

\* A faulty HDEL: the whole hash is removed with the field.
HDel_DropsHash(hs, key, f) ==
    IF key \notin DOMAIN hs THEN hs ELSE [x \in DOMAIN hs \ {key} |-> hs[x]]

\* HDEL key f: a hash left without fields no longer exists.
HDel(hs, key, f) ==
    IF key \notin DOMAIN hs THEN hs
    ELSE IF DOMAIN hs[key] \subseteq {f} THEN [x \in DOMAIN hs \ {key} |-> hs[x]]
    ELSE [x \in DOMAIN hs |->
             IF x = key THEN [g \in DOMAIN hs[key] \ {f} |-> hs[key][g]] ELSE hs[x]]

\* --------------------------------------------------------- the schema

\* The entity type the model persists:
\*   id = Column(); k = Column(type=Integer, default=0, primary_key=hasPK);
\*   name = Column(default="d")
Columns == <<"id", "k", "name">>
ColumnSet == {"id", "k", "name"}

\* cls.__dict__[column].type
ColType(col) == IF col = "k" THEN "Integer" ELSE "None"

\* cls.__dict__[column].default
ColDefault(col) ==
    CASE col = "id" -> PyNone
      [] col = "k" -> PyInt(0)
      [] col = "name" -> PyStr(<<"d">>)

\* set_column followed by __getattribute__: the raw value an attribute reads
\* back as after being assigned obj.
set_column(col, obj) == IF ColType(col) = "None" THEN obj ELSE IntegerNew(obj)

\* PersistentData.__init__(**kwargs): kwargs is a function from the supplied
\* column names to values; the other columns take their default.
NewEntity(kwargs) ==
    [col \in ColumnSet |->
        set_column(col, IF col \in DOMAIN kwargs THEN kwargs[col] ELSE ColDefault(col))]

\* -------------------------------------------------- identifier assignment

\* get_last_insert_id: GET of the counter key, None or int(_id).
get_last_insert_id(c) == IF c = PyNone THEN PyNone ELSE PyInt(StrToInt(c.v))

\* A faulty next_id: the counter value is reused instead of incremented.
next_id_NoIncrement(_id) == IF _id # PyNone THEN PyInt(_id.v) ELSE PyInt(0)

\* update_id, lines 83-88: the id assigned after reading _id.
next_id(_id) == IF _id # PyNone THEN PyInt(_id.v + 1) ELSE PyInt(0)

\* update_id: the id it assigns to obj when the counter holds c.
update_id(c) == next_id(get_last_insert_id(c))

\* set_id: the string SET at the counter key.
set_id(id) == PyStr(IntToStr(id.v))

\* A faulty test: update_id is called whatever obj.id holds.
NeedsId_Always(e) == TRUE

\* save, line 102: whether `obj.id or self.update_id(obj)` calls update_id.
NeedsId(e) == ~Truthy(e.id)

\* save, line 102: obj.id = obj.id or self.update_id(obj)
save_id(e, c) == IF NeedsId(e) THEN update_id(c) ELSE e.id

\* ------------------------------------------------------------------ load

\* load, lines 128-137: the keyword arguments _load yields from the hash.
load_kwargs(hs, key) ==
    [col \in {x \in ColumnSet : HGet(hs, key, x) # PyNone} |->
        IF ColType(col) = "None" THEN HGet(hs, key, col)
        ELSE IntegerNew(HGet(hs, key, col))]

\* load(cls, key): None for a tombstoned hash, else the entity built from
\* the fields the hash has.
load(hs, key) ==
    LET k == Str(key).v
    IN  IF Tombstoned(hs, k) THEN PyNone
        ELSE NewEntity(load_kwargs(hs, k))

\* get_max_id: None when the counter key does not exist.
get_max_id(c) == IF c = PyNone THEN PyNone ELSE PyInt(StrToInt(c.v))

\* ------------------------------------------------------------- iteration

\* A faulty range: it starts at id 1 and runs one past max_id.
IdRange_Shifted(max_id, reverse, j) == IF reverse THEN max_id.v + 2 - j ELSE j

\* The j-th id of range(int(max_id) + 1), or of range(int(max_id), -1, -1)
\* when reversed.
IdRange(max_id, reverse, j) == IF reverse THEN max_id.v + 1 - j ELSE j - 1

\* load_all_only_keys(cls, key, ignore_primary_key=True): the raw field of
\* every id 0..max_id.
load_all_only_keys(hs, c, key, reverse) ==
    LET max_id == get_max_id(c)
    IN  IF max_id = PyNone THEN <<>>
        ELSE [j \in 1..(max_id.v + 1) |->
                 HGet(hs, IntToStr(IdRange(max_id, reverse, j)), key)]

RECURSIVE SortInsert_Unstable(_, _)
\* A faulty sort step: x goes before the elements equal to it.
SortInsert_Unstable(s, x) ==
    IF s = <<>> THEN <<x>>
    ELSE IF ~StrLess(s[1][2].v, x[2].v) THEN <<x>> \o s
    ELSE <<s[1]>> \o SortInsert_Unstable(Tail(s), x)

RECURSIVE SortInsert(_, _)
\* One step of a stable sort: x goes after every element not greater than it.
SortInsert(s, x) ==
    IF s = <<>> THEN <<x>>
    ELSE IF StrLess(x[2].v, s[1][2].v) THEN <<x>> \o s
    ELSE <<s[1]>> \o SortInsert(Tail(s), x)

RECURSIVE SortedKV(_)
\* sorted(kv, key=lambda tp: tp[1]) on pairs <<i, raw stored value>>.
SortedKV(kv) ==
    IF kv = <<>> THEN <<>>
    ELSE SortInsert(SortedKV(SubSeq(kv, 1, Len(kv) - 1)), kv[Len(kv)])

\* sorted() raises TypeError when it has to compare None with anything.
SortRaises(kv) == Len(kv) >= 2 /\ \E j \in 1..Len(kv) : kv[j][2] = PyNone

\* load_all(cls, reverse, ignore_primary_key), with _range=None: the
\* exception it raises, if any, and the items it yields.
load_all(hs, c, reverse, ignore_primary_key) ==
    LET max_id == get_max_id(c)
    IN  IF max_id = PyNone THEN [exc |-> "none", items |-> <<>>]
        ELSE IF hasPK /\ ~ignore_primary_key
        THEN LET keys == load_all_only_keys(hs, c, "k", FALSE)
                 kv == [j \in 1..Len(keys) |-> <<j - 1, keys[j]>>]
                 order == SortedKV(kv)
             IN  IF SortRaises(kv) THEN [exc |-> "TypeError", items |-> <<>>]
                 ELSE [exc |-> "none",
                       items |-> [j \in 1..Len(kv) |->
                                     load(hs, PyStr(IntToStr(order[j][1])))]]
        ELSE [exc |-> "none",
              items |-> [j \in 1..(max_id.v + 1) |->
                            load(hs, PyStr(IntToStr(IdRange(max_id, reverse, j))))]]

RECURSIVE FindByFrom(_, _, _, _, _)
\* find_by, lines 188-192: the scan from id i on.
FindByFrom(hs, max, key, value, i) ==
    IF i > max THEN PyNone
    ELSE IF HGet(hs, IntToStr(i), key) = value THEN load(hs, PyInt(i))
    ELSE FindByFrom(hs, max, key, value, i + 1)

\* find_by(cls, key, value)
find_by(hs, c, key, value) ==
    LET max_id == get_max_id(c)
    IN  IF max_id = PyNone THEN PyNone ELSE FindByFrom(hs, max_id.v, key, value, 0)

\* The conditions find is called with: lambda x: x.name == "a", which raises
\* AttributeError on None, and lambda x: x is not None and x.name == "a".
FindConds == {"name", "safe_name"}

RECURSIVE FindFrom(_, _)
\* find, lines 178-181: the first item on which cond(item) is True.
FindFrom(items, cond) ==
    IF items = <<>> THEN [exc |-> "none", val |-> PyNone]
    ELSE IF items[1] = PyNone /\ cond = "name"
    THEN [exc |-> "AttributeError", val |-> PyNone]
    ELSE IF items[1] # PyNone /\ items[1].name = PyStr(<<"a">>)
    THEN [exc |-> "none", val |-> items[1]]
    ELSE FindFrom(Tail(items), cond)

\* find(cls, cond)
find(hs, c, cond) ==
    LET la == load_all(hs, c, FALSE, FALSE)
    IN  IF la.exc # "none" THEN [exc |-> la.exc, val |-> PyNone]
        ELSE FindFrom(la.items, cond)

\* ------------------------------------------------------------------ save

\* A faulty save_column: a null value leaves the stored field in place.
save_column_KeepNull(hs, key, e, col) ==
    IF ColType(col) # "None"
    THEN HSet(hs, key, col, IntegerFreeze(IntegerNew(e[col])))
    ELSE IF e[col] # PyNone THEN HSet(hs, key, col, Str(e[col]).v)
    ELSE hs

\* save, lines 106-112: the write of one column of obj.  A typed column's
\* attribute holds its adapter, which is never None.
save_column(hs, key, e, col) ==
    IF ColType(col) # "None"
    THEN HSet(hs, key, col, IntegerFreeze(IntegerNew(e[col])))
    ELSE IF e[col] # PyNone THEN HSet(hs, key, col, Str(e[col]).v)
    ELSE HDel(hs, key, col)

RECURSIVE save_columns(_, _, _, _)
\* save, lines 105-112: the columns from the i-th on, in declaration order.
save_columns(hs, key, e, i) ==
    IF i > Len(Columns) THEN hs
    ELSE save_columns(save_column(hs, key, e, Columns[i]), key, e, i + 1)

RECURSIVE PushIds(_, _)
\* save, lines 116-117: the RPUSH of item.id for each item, up to the first
\* item that is None, on which item.id raises AttributeError.
PushIds(items, list) ==
    IF items = <<>> THEN [exc |-> "none", list |-> list]
    ELSE IF items[1] = PyNone THEN [exc |-> "AttributeError", list |-> list]
    ELSE IF items[1].id = PyNone THEN [exc |-> "DataError", list |-> list]
    ELSE PushIds(Tail(items), Append(list, items[1].id.v))

\* save, lines 114-117: DELETE of the index, then the rebuild from load_all.
rebuild_index(hs, c) ==
    LET la == load_all(hs, c, FALSE, FALSE)
    IN  IF la.exc # "none" THEN [exc |-> la.exc, list |-> <<>>]
        ELSE PushIds(la.items, <<>>)

\* ---------------------------------------------------------------- inputs

\* The values the application gives the primary-key column and the name.
KValues == {PyInt(2), PyInt(10)}
NameValues == {PyNone, PyStr(<<"a">>)}

\* The ids 0..counter, as key segments.
IssuedKeys == IF counter = PyNone THEN {} ELSE {IntToStr(i) : i \in 0..StrToInt(counter.v)}

\* The ids issued so far, as the application can hold them: the string save
\* and load leave in obj.id, or the same number as an int.
KnownIds == UNION {{PyStr(key), PyInt(StrToInt(key))} : key \in IssuedKeys}

\* The entities save is called with: new ones (id None) and ones that name
\* an issued id.
SaveInputs ==
    {NewEntity([id |-> i, k |-> kv, name |-> nv]) :
        i \in {PyNone} \cup KnownIds, kv \in KValues, nv \in NameValues}

\* The lookups find_by is called with: a column and a stored string.
FindByInputs ==
    {<<"k", PyStr(<<"2">>)>>, <<"k", PyStr(<<"1", "0">>)>>, <<"name", PyStr(<<"a">>)>>}

\* The concurrent callers of save, and a caller that is not in a call.
Procs == {1, 2}
IdleProc ==
    [pc |-> "idle", e |-> PyNone, _id |-> PyNone, i |-> 0, max_id |-> PyNone,
     keys |-> <<>>, order |-> <<>>, item |-> PyNone, exc |-> "none"]

\* ---------------------------------------------------------------- actions

Init ==
    /\ hasPK \in BOOLEAN
    /\ counter = PyNone
    /\ hashes = <<>>
    /\ sorted = <<>>
    /\ issued = <<>>
    /\ ret = [op |-> "init"]
    /\ procs = [p \in Procs |-> IdleProc]
    /\ calls = 0

\* save(obj), run to its end or to the exception it raises.
Save(e) ==
    /\ NeedsId(e) => update_id(counter).v <= MaxId
    /\ LET id1 == save_id(e, counter)
           key == Str(id1)
       IN  /\ counter' = IF NeedsId(e) THEN set_id(id1) ELSE counter
           /\ issued' = IF NeedsId(e) THEN Append(issued, id1.v) ELSE issued
           /\ hashes' = save_columns(hashes, key.v, [e EXCEPT !.id = key], 1)
           /\ LET idx == IF hasPK THEN rebuild_index(hashes', counter')
                         ELSE [exc |-> "none", list |-> sorted]
              IN  /\ sorted' = idx.list
                  /\ ret' = [op |-> "save", e |-> e, id |-> key, exc |-> idx.exc,
                             again |-> ret.op = "save" /\ e = [ret.e EXCEPT !.id = ret.id]]
    /\ UNCHANGED <<hasPK, procs, calls>>

\* A faulty delete: no check of the id, the key built from str(obj.id).
Delete_NoGuard(id) ==
    /\ hashes' = HSet(hashes, IF id = PyNone THEN <<"N", "o", "n", "e">> ELSE Str(id).v,
                      DELETED, <<"1">>)
    /\ ret' = [op |-> "delete", id |-> id, exc |-> "none", val |-> FALSE]
    /\ UNCHANGED <<hasPK, counter, sorted, issued, procs, calls>>

\* delete(obj): False without an id; str.join raises TypeError on an int id;
\* else HSET of the tombstone, whose reply is 1 for a new field and 0 else.
Delete(id) ==
    /\ IF id = PyNone
       THEN /\ ret' = [op |-> "delete", id |-> id, exc |-> "none", val |-> FALSE]
            /\ UNCHANGED hashes
       ELSE IF id.t # "str"
       THEN /\ ret' = [op |-> "delete", id |-> id, exc |-> "TypeError", val |-> FALSE]
            /\ UNCHANGED hashes
       ELSE /\ hashes' = HSet(hashes, id.v, DELETED, <<"1">>)
            /\ ret' = [op |-> "delete", id |-> id, exc |-> "none",
                       val |-> IF HGet(hashes, id.v, DELETED) = PyNone THEN 1 ELSE 0]
    /\ UNCHANGED <<hasPK, counter, sorted, issued, procs, calls>>

\* load(cls, key)
Load(key) ==
    /\ ret' = [op |-> "load", key |-> key, val |-> load(hashes, key)]
    /\ UNCHANGED <<hasPK, counter, hashes, sorted, issued, procs, calls>>

\* list(load_all(cls, reverse=..., ignore_primary_key=...))
LoadAll(reverse, ignore_primary_key) ==
    /\ LET la == load_all(hashes, counter, reverse, ignore_primary_key)
       IN  ret' = [op |-> "load_all", reverse |-> reverse, ignore |-> ignore_primary_key,
                   exc |-> la.exc, val |-> la.items]
    /\ UNCHANGED <<hasPK, counter, hashes, sorted, issued, procs, calls>>

\* find_by(cls, key, value)
FindBy(key, value) ==
    /\ ret' = [op |-> "find_by", key |-> key, value |-> value,
               val |-> find_by(hashes, counter, key, value)]
    /\ UNCHANGED <<hasPK, counter, hashes, sorted, issued, procs, calls>>

\* find(cls, cond)
Find(cond) ==
    /\ LET f == find(hashes, counter, cond)
       IN  ret' = [op |-> "find", cond |-> cond, exc |-> f.exc, val |-> f.val]
    /\ UNCHANGED <<hasPK, counter, hashes, sorted, issued, procs, calls>>

\* get_max_id(cls)
GetMaxId ==
    /\ ret' = [op |-> "get_max_id", val |-> get_max_id(counter)]
    /\ UNCHANGED <<hasPK, counter, hashes, sorted, issued, procs, calls>>

Next ==
    \/ \E e \in SaveInputs : Save(e)
    \/ \E id \in {PyNone} \cup KnownIds : Delete(id)
    \/ \E i \in 0..MaxId : Load(PyInt(i))
    \/ \E rv \in BOOLEAN, ig \in BOOLEAN : LoadAll(rv, ig)
    \/ \E q \in FindByInputs : FindBy(q[1], q[2])
    \/ \E cond \in FindConds : Find(cond)
    \/ GetMaxId

Spec == Init /\ [][Next]_vars

\* ------------------------------------------- save, one store call a step

\* The new entities the concurrent callers save.
ConcInputs ==
    {NewEntity([id |-> PyNone, k |-> PyInt(2), name |-> PyStr(<<"a">>)]),
     NewEntity([id |-> PyNone, k |-> PyInt(10), name |-> PyNone])}

\* What the steps of caller p leave unchanged besides the store.
Goto(p, pc) == [procs[p] EXCEPT !.pc = pc]

\* save(obj) is called with a new entity; update_id's GET of the counter.
SaveGetId(p, e) ==
    /\ procs[p].pc \in {"idle", "done"}
    /\ calls < MaxCalls
    /\ NeedsId(e)
    /\ update_id(counter).v <= MaxId
    /\ procs' = [procs EXCEPT ![p] =
                    [IdleProc EXCEPT !.pc = "set_id", !.e = e,
                                     !._id = get_last_insert_id(counter)]]
    /\ calls' = calls + 1
    /\ UNCHANGED <<hasPK, counter, hashes, sorted, issued, ret>>

\* A different update_id: the id taken from the counter as it is at the SET
\* (an atomic increment), not from the _id read before.
SetId_Atomic(p) ==
    /\ procs[p].pc = "set_id"
    /\ LET id == update_id(counter)
       IN  /\ counter' = set_id(id)
           /\ issued' = Append(issued, id.v)
           /\ procs' = [procs EXCEPT ![p] =
                           [@ EXCEPT !.pc = "column", !.e = [@ EXCEPT !.id = Str(id)],
                                     !.i = 1]]
    /\ UNCHANGED <<hasPK, hashes, sorted, ret, calls>>

\* update_id, lines 84-88: obj.id from the _id read before, and its SET;
\* then save, line 103: obj.id = str(obj.id).
SetId(p) ==
    /\ procs[p].pc = "set_id"
    /\ LET id == next_id(procs[p]._id)
       IN  /\ counter' = set_id(id)
           /\ issued' = Append(issued, id.v)
           /\ procs' = [procs EXCEPT ![p] =
                           [@ EXCEPT !.pc = "column", !.e = [@ EXCEPT !.id = Str(id)],
                                     !.i = 1]]
    /\ UNCHANGED <<hasPK, hashes, sorted, ret, calls>>

\* save, lines 105-112: the HSET or HDEL of the next column.
SaveColumn(p) ==
    /\ procs[p].pc = "column"
    /\ hashes' = save_column(hashes, procs[p].e.id.v, procs[p].e, Columns[procs[p].i])
    /\ procs' = [procs EXCEPT ![p] =
                    IF procs[p].i < Len(Columns) THEN [@ EXCEPT !.i = @ + 1]
                    ELSE IF hasPK THEN Goto(p, "idx_delete")
                    ELSE Goto(p, "done")]
    /\ UNCHANGED <<hasPK, counter, sorted, issued, ret, calls>>

\* A faulty rebuild: the index is not cleared before the appends.
IdxDelete_Keep(p) ==
    /\ procs[p].pc = "idx_delete"
    /\ sorted' = sorted
    /\ procs' = [procs EXCEPT ![p] = Goto(p, "idx_max")]
    /\ UNCHANGED <<hasPK, counter, hashes, issued, ret, calls>>

\* save, line 115: DELETE of the index.
IdxDelete(p) ==
    /\ procs[p].pc = "idx_delete"
    /\ sorted' = <<>>
    /\ procs' = [procs EXCEPT ![p] = Goto(p, "idx_max")]
    /\ UNCHANGED <<hasPK, counter, hashes, issued, ret, calls>>

\* load_all, lines 141-143: get_max_id, which ends the rebuild when None.
IdxMax(p) ==
    /\ procs[p].pc = "idx_max"
    /\ procs' = [procs EXCEPT ![p] =
                    IF get_max_id(counter) = PyNone THEN Goto(p, "done")
                    ELSE Goto(p, "idx_keys_max")]
    /\ UNCHANGED <<hasPK, counter, hashes, sorted, issued, ret, calls>>

\* load_all_only_keys, lines 161-165: its own get_max_id.
IdxKeysMax(p) ==
    /\ procs[p].pc = "idx_keys_max"
    /\ procs' = [procs EXCEPT ![p] =
                    IF get_max_id(counter) = PyNone THEN Goto(p, "done")
                    ELSE [@ EXCEPT !.pc = "idx_keys", !.max_id = get_max_id(counter),
                                   !.i = 0, !.keys = <<>>]]
    /\ UNCHANGED <<hasPK, counter, hashes, sorted, issued, ret, calls>>

\* load_all_only_keys, line 169: the HGET of the key field of id i; after
\* the last one, load_all, line 153: sorted(kv).
IdxKey(p) ==
    /\ procs[p].pc = "idx_keys"
    /\ LET keys == Append(procs[p].keys, HGet(hashes, IntToStr(procs[p].i), "k"))
           kv == [j \in 1..Len(keys) |-> <<j - 1, keys[j]>>]
           order == SortedKV(kv)
       IN  procs' = [procs EXCEPT ![p] =
                        IF procs[p].i < procs[p].max_id.v
                        THEN [@ EXCEPT !.i = @ + 1, !.keys = keys]
                        ELSE IF SortRaises(kv)
                        THEN [@ EXCEPT !.pc = "done", !.keys = keys, !.exc = "TypeError"]
                        ELSE [@ EXCEPT !.pc = "idx_load", !.keys = keys, !.i = 1,
                                       !.order = [j \in 1..Len(kv) |-> order[j][1]]]]
    /\ UNCHANGED <<hasPK, counter, hashes, sorted, issued, ret, calls>>

\* load, line 125: the HGET of the tombstone of the next id in order; save,
\* line 117: item.id raises AttributeError on the None load returns.
IdxLoadDeleted(p) ==
    /\ procs[p].pc = "idx_load"
    /\ procs' = [procs EXCEPT ![p] =
                    IF Tombstoned(hashes, IntToStr(procs[p].order[procs[p].i]))
                    THEN [@ EXCEPT !.pc = "done", !.exc = "AttributeError"]
                    ELSE Goto(p, "idx_cols")]
    /\ UNCHANGED <<hasPK, counter, hashes, sorted, issued, ret, calls>>

\* load, lines 128-138: the HGETs of the columns (only the id read first is
\* used by the caller) and the entity built from them.
IdxLoadCols(p) ==
    /\ procs[p].pc = "idx_cols"
    /\ procs' = [procs EXCEPT ![p] =
                    [@ EXCEPT !.pc = "idx_push",
                              !.item = NewEntity(load_kwargs(hashes,
                                           IntToStr(procs[p].order[procs[p].i])))]]
    /\ UNCHANGED <<hasPK, counter, hashes, sorted, issued, ret, calls>>

\* save, line 117: RPUSH of item.id.  For an id of None the client either
\* refuses the value (DataError) or pushes str(None), by its version.
IdxPush(p) ==
    /\ procs[p].pc = "idx_push"
    /\ \E lenient \in BOOLEAN :
          LET id == procs[p].item.id
              refused == id = PyNone /\ ~lenient
          IN  /\ sorted' = IF refused THEN sorted
                           ELSE IF id = PyNone THEN Append(sorted, <<"N", "o", "n", "e">>)
                           ELSE Append(sorted, id.v)
              /\ procs' = [procs EXCEPT ![p] =
                              IF refused THEN [@ EXCEPT !.pc = "done", !.exc = "DataError"]
                              ELSE IF procs[p].i < Len(procs[p].order)
                              THEN [@ EXCEPT !.pc = "idx_load", !.i = @ + 1]
                              ELSE Goto(p, "done")]
    /\ UNCHANGED <<hasPK, counter, hashes, issued, ret, calls>>

\* delete(obj) of a saved entity, before any concurrent call.
DeleteBefore(key) == calls = 0 /\ Delete(PyStr(key))

\* save(obj) of a new entity, run to its end before any concurrent call.
SaveBefore(e) == calls = 0 /\ Save(e)

NextC ==
    \/ \E e \in ConcInputs : SaveBefore(e)
    \/ \E p \in Procs, e \in ConcInputs : SaveGetId(p, e)
    \/ \E p \in Procs : SetId(p)
    \/ \E p \in Procs : SaveColumn(p)
    \/ \E p \in Procs : IdxDelete(p)
    \/ \E p \in Procs : IdxMax(p)
    \/ \E p \in Procs : IdxKeysMax(p)
    \/ \E p \in Procs : IdxKey(p)
    \/ \E p \in Procs : IdxLoadDeleted(p)
    \/ \E p \in Procs : IdxLoadCols(p)
    \/ \E p \in Procs : IdxPush(p)
    \/ \E key \in IssuedKeys : DeleteBefore(key)

\* Saves and deletes run one after the other, then concurrent callers of
\* save interleaved at the store calls.
SpecC == Init /\ [][NextC]_vars

\* ------------------------------------------- saves with a null typed column

\* The entities save is called with when the application also leaves the
\* typed column k null: set_column wraps the None in the column's adapter.
SaveInputsNull ==
    {NewEntity([id |-> i, k |-> kv, name |-> nv]) :
        i \in {PyNone} \cup {PyStr(key) : key \in IssuedKeys},
        kv \in {PyInt(2), PyNone}, nv \in NameValues}

\* A type without a primary key: save does not rebuild an index.
InitN == Init /\ ~hasPK

NextN ==
    \/ \E e \in SaveInputsNull : Save(e)
    \/ \E key \in IssuedKeys : Delete(PyStr(key))

\* Saves and deletes of entities whose typed column may be null.
SpecN == InitN /\ [][NextN]_vars

\* ------------------------------------------------------ class declaration

\* The most Column attributes a declared class body has.
MaxColumns == 2

\* What Column.__init__ can observe of its type argument: None, a class whose
\* __orderable__ is true, one whose __orderable__ is false, and a class
\* without that attribute.
TypeArgs == {"None", "orderable", "unorderable", "plain"}

\* The arguments of one `name = Column(type=..., primary_key=...)` statement.
ColumnArgs == [type : TypeArgs, primary_key : BOOLEAN]

\* The class bodies declared: one to MaxColumns Column statements, in order.
Declarations == UNION {[1..n -> ColumnArgs] : n \in 1..MaxColumns}

\* Column.__init__: the descriptor built, or the exception raised.  Reading
\* self.type.__orderable__ raises AttributeError when the type has no such
\* attribute, as None has none.
Column(args) ==
    IF ~args.primary_key
    THEN [exc |-> "none", type |-> args.type, primary_key |-> FALSE]
    ELSE IF args.type \in {"None", "plain"}
    THEN [exc |-> "AttributeError", type |-> args.type, primary_key |-> FALSE]
    ELSE IF args.type = "orderable"
    THEN [exc |-> "none", type |-> args.type, primary_key |-> TRUE]
    ELSE [exc |-> "RedisOrmException", type |-> args.type, primary_key |-> FALSE]

RECURSIVE class_body(_, _)
\* The class body run from its i-th statement: the first exception a Column
\* statement raises ends the declaration.
class_body(decl, i) ==
    IF i > Len(decl) THEN "none"
    ELSE IF Column(decl[i]).exc # "none" THEN Column(decl[i]).exc
    ELSE class_body(decl, i + 1)

RECURSIVE meta_new(_, _, _, _)
\* MetaPersistentData.__new__, lines 20-29: the scan of the attributes from
\* the i-th on, with the _primary_key and _columns found so far (attribute
\* names are their positions; 0 stands for None).
meta_new(decl, i, _primary_key, _columns) ==
    IF i > Len(decl)
    THEN [exc |-> "none", _primary_key |-> _primary_key, _columns |-> _columns]
    ELSE IF Column(decl[i]).primary_key /\ _primary_key # 0
    THEN [exc |-> "RedisOrmException", _primary_key |-> _primary_key,
          _columns |-> _columns]
    ELSE meta_new(decl, i + 1,
                  IF Column(decl[i]).primary_key THEN i ELSE _primary_key,
                  Append(_columns, i))

\* class X(PersistentData) with the body decl.
Declare(decl) ==
    /\ LET body == class_body(decl, 1)
           new == meta_new(decl, 1, 0, <<>>)
           exc == IF body # "none" THEN body ELSE new.exc
       IN  ret' = [op |-> "declare", decl |-> decl, exc |-> exc,
                   defined |-> exc = "none",
                   _primary_key |-> IF exc = "none" THEN new._primary_key ELSE 0,
                   _columns |-> IF exc = "none" THEN new._columns ELSE <<>>]
    /\ UNCHANGED <<hasPK, counter, hashes, sorted, issued, procs, calls>>

NextD == \E decl \in Declarations : Declare(decl)

\* Class declarations, one after the other.
SpecD == Init /\ [][NextD]_vars

\* ------------------------------------------------------------ properties

\* The ids whose Stored Record exists and is not tombstoned.
LiveKeys == {key \in DOMAIN hashes : ~Tombstoned(hashes, key)}

\* C1: the ids update_id issues are 0, 1, 2, ... in order, without repeats
\* or gaps, whatever deletes happen in between; the Identifier Counter is
\* absent before the first insert and afterwards holds the id issued last,
\* which is the id a save of a new entity leaves in the entity.
C1_IdsSequential ==
    /\ \A j \in 1..Len(issued) : issued[j] = j - 1
    /\ issued = <<>> => counter = PyNone
    /\ issued # <<>> => counter = PyStr(IntToStr(issued[Len(issued)]))
    /\ (ret.op = "save" /\ ret.e.id = PyNone) => ret.id = counter

\* C1 witness: a second id was issued to a new entity after a delete.
C1_Witness ==
    /\ Len(issued) = 2
    /\ ret.op = "save" /\ ret.e.id = PyNone
    /\ Tombstoned(hashes, <<"0">>)

\* C2, as claimed: on a type with a primary key, load_all in its default
\* mode yields the records in non-decreasing numeric order of the key.
C2_LoadAllKeyOrder ==
    (hasPK /\ ret.op = "load_all" /\ ~ret.ignore /\ ret.exc = "none") =>
        \A i, j \in 1..Len(ret.val) :
            (i < j /\ ret.val[i] # PyNone /\ ret.val[j] # PyNone) =>
                ret.val[i].k.v <= ret.val[j].k.v

\* C3, as claimed: once a record is tombstoned, load of its id returns
\* not-found, and a save of a new entity of the type completes and receives
\* the next sequential id, never a tombstoned one, with and without a
\* primary key.
C3_SoftDelete ==
    /\ (ret.op = "load" /\ Tombstoned(hashes, Str(ret.key).v)) => ret.val = PyNone
    /\ (ret.op = "save" /\ ret.e.id = PyNone /\ \E key \in DOMAIN hashes : Tombstoned(hashes, key)) =>
           /\ ret.exc = "none"
           /\ ret.id = counter
           /\ ~Tombstoned(hashes, ret.id.v)

\* The entity save(e) leaves behind: e with the id save gave it.
Saved == [ret.e EXCEPT !.id = ret.id]

C5_IdKept == (ret.op = "save" /\ ret.e.id # PyNone) => ret.id = Str(ret.e.id)

\* The lowest id whose stored field `col` equals `value`, among `keys`.
LowestMatch(keys, col, value) ==
    LET m == {key \in keys : HGet(hashes, key, col) = value}
    IN  IF m = {} THEN PyNone
        ELSE load(hashes, PyStr(CHOOSE key \in m :
                 \A other \in m : StrToInt(key) <= StrToInt(other)))

\* C6, as claimed: find_by returns the lowest-id non-tombstoned record whose
\* stored column equals the value, and not-found only when there is none.
C6_FindByLive ==
    ret.op = "find_by" =>
        ret.val = LowestMatch(LiveKeys \cap IssuedKeys, ret.key, ret.value)

\* C7, as claimed: load returns an entity only for an id whose Stored Record
\* was saved and is not tombstoned, and not-found otherwise.
C7_LoadNotFound ==
    ret.op = "load" => (ret.val # PyNone <=> Str(ret.key).v \in LiveKeys)

\* s lists exactly the live ids, each once, in ascending numeric key order.
IsLiveIndex(s) ==
    /\ {s[j] : j \in 1..Len(s)} = LiveKeys
    /\ Len(s) = Cardinality(LiveKeys)
    /\ \A i, j \in 1..Len(s) :
           i < j => StrToInt(hashes[s[i]]["k"]) <= StrToInt(hashes[s[j]]["k"])

\* C8, as claimed: on a type with a primary key every save completes and
\* leaves the Sorted Index holding exactly the ids of the non-deleted
\* records, each once, in ascending primary-key order.
C8_IndexRebuilt ==
    (hasPK /\ ret.op = "save") => (ret.exc = "none" /\ IsLiveIndex(sorted))

\* C9: delete of an entity without an id returns False and changes no key,
\* hash field, counter or index entry of the store.
C9_DeleteUnsetNoop ==
    [][(ret'.op = "delete" /\ ret'.id = PyNone) =>
           (ret'.val = FALSE /\ ret'.exc = "none"
            /\ counter' = counter /\ hashes' = hashes /\ sorted' = sorted)]_vars

\* C9 witness: delete without an id was called on a store holding records.
C9_Witness ==
    ret.op = "delete" /\ ret.id = PyNone /\ ret.val = FALSE /\ DOMAIN hashes # {}

\* Caller p is in a save call that has assigned its entity an id.
Assigned(p) == procs[p].pc \notin {"idle", "set_id"}

\* Caller p is in a save call that has written all its columns.
Written(p) == procs[p].pc \notin {"idle", "set_id", "column"}

\* What save_column leaves at field col for entity e: its value, or no field.
StoredValue(e, col) ==
    IF ColType(col) # "None" THEN PyStr(IntegerFreeze(e[col]))
    ELSE IF e[col] # PyNone THEN Str(e[col]) ELSE PyNone

\* C10: two concurrent saves of new entities that read the same Identifier
\* Counter value in update_id are assigned the same id; once both have
\* written their columns the one Stored Record of that id holds, in every
\* column, what one of the two wrote, so a save overwrote the other's.
C10_SameReadSameId ==
    \A p, q \in Procs :
        (p # q /\ Assigned(p) /\ Assigned(q) /\ procs[p]._id = procs[q]._id) =>
            /\ procs[p].e.id = procs[q].e.id
            /\ (Written(p) /\ Written(q)) =>
                   \A col \in ColumnSet :
                       HGet(hashes, procs[p].e.id.v, col) \in
                           {StoredValue(procs[p].e, col), StoredValue(procs[q].e, col)}

\* C10 witness: both saves are done with the same id after reading the same
\* counter value, the record holds the key of one entity and not the other's,
\* and the counter advanced by one for the two inserts.
C10_Witness ==
    \E p, q \in Procs :
        /\ p # q /\ procs[p].pc = "done" /\ procs[q].pc = "done"
        /\ procs[p]._id = PyInt(0) /\ procs[q]._id = PyInt(0)
        /\ procs[p].e.id = procs[q].e.id
        /\ procs[p].e.k # procs[q].e.k
        /\ HGet(hashes, procs[p].e.id.v, "k") = StoredValue(procs[q].e, "k")
        /\ issued = <<0, 1, 1>>
        /\ counter = PyStr(<<"1">>)

\* The number the Identifier Counter holds, -1 while it is absent.
CounterVal(c) == IF c = PyNone THEN -1 ELSE StrToInt(c.v)

\* C11, as claimed: with the update_id steps of concurrent saves interleaved,
\* no step lowers the Identifier Counter, and every step in which update_id
\* assigns an id raises it.
C11_CounterIncreases ==
    [][/\ CounterVal(counter') >= CounterVal(counter)
       /\ issued' # issued => CounterVal(counter') > CounterVal(counter)]_vars

\* The entity the fields of the Stored Record at `key` decode to.
Decoded(key) ==
    [col \in ColumnSet |->
        IF HGet(hashes, key, col) = PyNone THEN ColDefault(col)
        ELSE IF col = "k" THEN PyInt(StrToInt(HGet(hashes, key, col).v))
        ELSE HGet(hashes, key, col)]

\* The positions of the sequence s that hold None.
NonePositions(s) == {j \in 1..Len(s) : s[j] = PyNone}

\* C12: load_all, on the primary-key path and on the insertion-order path,
\* completes and yields one element per id 0..max_id: for each id that is
\* not tombstoned exactly one element, the entity its record decodes to, and
\* one None per tombstoned id; it yields nothing while no id was issued.
C12_LoadAllOnePerId ==
    ret.op = "load_all" =>
        /\ ret.exc = "none"
        /\ Len(ret.val) = Cardinality(IssuedKeys)
        /\ counter = PyNone => ret.val = <<>>
        /\ Cardinality(NonePositions(ret.val)) =
               Cardinality({key \in IssuedKeys : Tombstoned(hashes, key)})
        /\ \A key \in IssuedKeys :
               ~Tombstoned(hashes, key) =>
                   /\ Cardinality({j \in 1..Len(ret.val) :
                          ret.val[j] # PyNone /\ ret.val[j].id = PyStr(key)}) = 1
                   /\ \E j \in 1..Len(ret.val) : ret.val[j] = Decoded(key)

\* C12 witness: load_all on the primary-key path yielded an entity for a
\* live id and None for a tombstoned one.
C12_Witness ==
    /\ ret.op = "load_all" /\ hasPK /\ ~ret.ignore
    /\ Len(ret.val) = 2
    /\ NonePositions(ret.val) # {}
    /\ \E j \in 1..2 : ret.val[j] # PyNone /\ ret.val[j] = Decoded(ret.val[j].id.v)

\* C13: save(e) called again on the entity the save before it left behind,
\* with the same column values, keeps the id and leaves every Stored Record,
\* that of e included, and the Identifier Counter as they were.
C13_SaveIdempotent ==
    [][(ret.op = "save" /\ ret'.op = "save" /\ ret'.e = Saved) =>
           /\ ret'.id = ret.id
           /\ hashes' = hashes
           /\ counter' = counter
           /\ issued' = issued]_vars

\* C13 witness: a new entity with a null column was saved and then saved
\* again unchanged, next to another record.
C13_Witness ==
    /\ ret.op = "save" /\ ret.again
    /\ ret.e.name = PyNone
    /\ ret.id = PyStr(<<"1">>)
    /\ DOMAIN hashes = {<<"0">>, <<"1">>}
    /\ "name" \notin DOMAIN hashes[<<"1">>]

\* The Column statements of decl that ask for a primary key.
PrimaryKeys(decl) == {j \in 1..Len(decl) : decl[j].primary_key}

\* C14, as claimed: a declaration that succeeds has at most one primary-key
\* column and that column's type is orderable; a declaration with two
\* primary-key columns, or with a primary-key column whose type is not
\* orderable, raises the library's exception and defines no class.
C14_SchemaChecked ==
    ret.op = "declare" =>
        LET pks == PrimaryKeys(ret.decl)
            bad == \/ Cardinality(pks) > 1
                   \/ \E j \in pks : ret.decl[j].type # "orderable"
        IN  /\ ret.defined => ~bad
            /\ bad => (ret.exc = "RedisOrmException" /\ ~ret.defined)

\* C15: load_all on the primary-key path yields records whose primary-key
\* values are equal in ascending order of their ids.
C15_StableSort ==
    (hasPK /\ ret.op = "load_all" /\ ~ret.ignore) =>
        \A i, j \in 1..Len(ret.val) :
            (i < j /\ ret.val[i] # PyNone /\ ret.val[j] # PyNone
                   /\ ret.val[i].k = ret.val[j].k) =>
                StrToInt(ret.val[i].id.v) < StrToInt(ret.val[j].id.v)

\* C15 witness: load_all on the primary-key path yielded two records with
\* the same key, id 0 before id 1.
C15_Witness ==
    /\ hasPK /\ ret.op = "load_all" /\ ~ret.ignore /\ ret.exc = "none"
    /\ Len(ret.val) = 2
    /\ ret.val[1] # PyNone /\ ret.val[2] # PyNone
    /\ ret.val[1].k = ret.val[2].k
    /\ ret.val[1].id = PyStr(<<"0">>) /\ ret.val[2].id = PyStr(<<"1">>)

\* The fields of the hash at `key` other than the tombstone, as a function;
\* the empty function when there is no such hash.
ColumnFields(hs, key) ==
    IF key \notin DOMAIN hs THEN <<>>
    ELSE [f \in DOMAIN hs[key] \ {DELETED} |-> hs[key][f]]

\* C16: delete of an entity with an id changes at most the tombstone field
\* of the entity's own Stored Record: the column fields of that record,
\* every other record, the Identifier Counter and the Sorted Index stay as
\* they were, no record is removed, and the record is tombstoned when
\* delete returns.
C16_DeleteFrame ==
    [][(ret'.op = "delete" /\ ret'.id # PyNone) =>
           LET key == Str(ret'.id).v
           IN  /\ counter' = counter
               /\ sorted' = sorted
               /\ DOMAIN hashes \subseteq DOMAIN hashes'
               /\ DOMAIN hashes' \subseteq DOMAIN hashes \cup {key}
               /\ \A other \in DOMAIN hashes : other # key => hashes'[other] = hashes[other]
               /\ ColumnFields(hashes', key) = ColumnFields(hashes, key)
               /\ ret'.exc = "none" => Tombstoned(hashes', key)]_vars

\* C16 witness: delete set the tombstone on a record that holds its column
\* fields, next to another record, under a type with a Sorted Index.
C16_Witness ==
    /\ ret.op = "delete" /\ ret.id = PyStr(<<"0">>) /\ ret.val = 1
    /\ Tombstoned(hashes, <<"0">>)
    /\ DOMAIN hashes[<<"0">>] = {"id", "k", "name", DELETED}
    /\ <<"1">> \in DOMAIN hashes
    /\ sorted # <<>>

\* C17, as claimed: after save(e) completes, the Stored Record of e has the
\* field of a declared column exactly when e's value for it is not null.
C17_FieldIffNonNull ==
    (ret.op = "save" /\ ret.exc = "none") =>
        \A col \in ColumnSet :
            col \in DOMAIN hashes[ret.id.v] <=> Saved[col] # PyNone

\* Caller p is in save's index rebuild, after the DELETE of the index and
\* before its last RPUSH.
InRebuild(p) ==
    procs[p].pc \in {"idx_max", "idx_keys_max", "idx_keys", "idx_load", "idx_cols", "idx_push"}

\* The number of RPUSHes caller p's rebuild has made.
Pushed(p) ==
    IF procs[p].pc \in {"idx_load", "idx_cols", "idx_push"} THEN procs[p].i - 1 ELSE 0

\* C18: while the only save in progress is between the DELETE of the Sorted
\* Index and its last RPUSH, the entity's Stored Record already holds every
\* column as saved, and the index holds just the ids appended so far: it is
\* empty until the first RPUSH and then a proper prefix of the list being
\* built, which is what a reader of the index sees at that point.
C18_PartialIndex ==
    \A p \in Procs :
        (calls = 1 /\ InRebuild(p)) =>
            /\ \A col \in ColumnSet :
                   HGet(hashes, procs[p].e.id.v, col) = StoredValue(procs[p].e, col)
            /\ Len(sorted) = Pushed(p)
            /\ \A j \in 1..Len(sorted) : sorted[j] = IntToStr(procs[p].order[j])
            /\ procs[p].order # <<>> => Len(sorted) < Len(procs[p].order)

\* C18 witness: a save has written its record and appended the first of the
\* two ids its rebuild will append; the index holds one id of two.
C18_Witness ==
    \E p \in Procs :
        /\ calls = 1 /\ procs[p].pc = "idx_load"
        /\ Len(procs[p].order) = 2
        /\ Len(sorted) = 1
        /\ \A col \in ColumnSet :
               HGet(hashes, procs[p].e.id.v, col) = StoredValue(procs[p].e, col)

\* C19: no operation removes a tombstone: a record that is tombstoned stays
\* tombstoned over every step of save, delete, load, load_all, find, find_by
\* and get_max_id, a save of the deleted entity itself included, and load of
\* its id returns None.
C19_TombstonePermanent ==
    [][\A key \in DOMAIN hashes :
           Tombstoned(hashes, key) =>
               /\ Tombstoned(hashes', key)
               /\ load(hashes', PyStr(key)) = PyNone
               /\ (ret'.op = "load" /\ Str(ret'.key).v = key) => ret'.val = PyNone]_vars

\* C19 witness: a deleted entity was saved again with another key and a
\* null name; its record took the values and is still tombstoned.
C19_Witness ==
    /\ ret.op = "save" /\ ret.e.id = PyStr(<<"0">>) /\ ret.id = PyStr(<<"0">>)
    /\ ret.e.k = PyInt(10) /\ ret.e.name = PyNone
    /\ hashes[<<"0">>] = [id |-> <<"0">>, k |-> <<"1", "0">>, __deleted__ |-> <<"1">>]
    /\ load(hashes, ret.id) = PyNone

====
